---- MODULE Spec2Model ----
(***************************************************************************)
(* A model of the SLA evaluation engine of sla-app: the business-calendar  *)
(* utility and the Result/Summary data model of sla_calculator.py, the     *)
(* three checks of sla_checker.py, the paginated search of jira_client.py  *)
(* and the run of the checks in main.py.                                   *)
(*                                                                         *)
(* Time.  A datetime is a natural number of ticks, TicksPerDay ticks to a  *)
(* calendar day; its date is dt \div TicksPerDay and date 0 is a Monday.   *)
(* Python's None is NoDate for a datetime and NoKey for an issue key.      *)
(* Every timestamp of the tracker is later than datetime.min.              *)
(*                                                                         *)
(* Inputs.  The tracker's data is immutable during a run, so each field is *)
(* drawn where the code reads it: a ticket's created value when its        *)
(* evaluation starts, each issue link when the link loop reaches it, the   *)
(* linked ticket's details when get_issue answers, the ticket's own status *)
(* where the inclusion filter reads it.                                    *)
(***************************************************************************)
EXTENDS Integers, Sequences, FiniteSets, TLC

VARIABLES
    bd_start, bd_end, bd_result,   \* one call of get_business_days
    ef_field, ef_default, ef_result,   \* one call of extract_field_value
    summary,                       \* SLASummary.results of the running check
    calls,                         \* the add_result calls on that Summary
    pc,                            \* where the run stands
    check,                         \* the check that is running, or NoCheck
    started,                       \* the checks started so far, in order
    returned,                      \* the checks that returned a Summary
    now,                           \* datetime.now()
    done_field,                    \* sla_config.get("config_done_date_field", "")
    server_total,                  \* the number of issues the search matches
    all_issues,                    \* search_issues: the issues retrieved so far
    start_at,                      \* search_issues: startAt of the next page
    idx,                           \* the position of the ticket being evaluated
    cur,                           \* the evaluation of that ticket
    search_failed,                 \* the checks whose search raised
    responses,                     \* a check run twice: the tracker's answers
    first_summary,                 \* a check run twice: the first run's results
    changelog, target_status,      \* one call of get_status_transition_date
    transition_date                \* what that call returned

bdVars == <<bd_start, bd_end, bd_result>>
runVars == <<pc, check, started, returned, now, done_field,
             server_total, all_issues, start_at, idx, cur, search_failed>>
vars == <<bd_start, bd_end, bd_result, summary, calls, pc, check, started, returned,
          now, done_field, server_total, all_issues, start_at, idx, cur,
          search_failed, responses, first_summary,
          ef_field, ef_default, ef_result,
          changelog, target_status, transition_date>>
twiceVars == <<responses, first_summary>>
efVars == <<ef_field, ef_default, ef_result>>
transitionVars == <<changelog, target_status, transition_date>>

(***************************************************************************)
(* Bounds of the model.                                                    *)
(***************************************************************************)
TicksPerDay == 2
MaxDay == 13
MaxResults == 6

(***************************************************************************)
(* Python's None, and datetime.min.                                        *)
(***************************************************************************)
NoDate == -2
DatetimeMin == -1
NoInt == -1
NoKey == <<>>
NoStr == <<>>
NoCheck == "none"
NoResult == [status |-> "none"]

\* no ticket is being evaluated
NoTicket ==
    [key |-> NoKey, created |-> NoDate, created_date |-> NoDate,
     links |-> <<>>, requests |-> <<>>, candidates |-> <<>>,
     comments |-> <<>>, status_name |-> "", result |-> NoResult, included |-> FALSE]

(***************************************************************************)
(* sla_calculator.py: get_business_days                                    *)
(***************************************************************************)
DateOf(dt) == dt \div TicksPerDay

MkDatetime(day, tick) == day * TicksPerDay + tick

\* numpy's default weekmask, Monday to Friday; date 0 is a Monday
IsBusday(d) == (d % 7) < 5

RECURSIVE BusdayLoop(_, _, _)
BusdayLoop(date_begin, date_end, count) ==
    IF date_begin < date_end
    THEN BusdayLoop(date_begin + 1, date_end,
                    IF IsBusday(date_begin) THEN count + 1 ELSE count)
    ELSE count

\* np.busday_count(begin, end): whole weeks first, then the remaining days one
\* by one from begin; the day of `end` is not counted.  With begin > end the
\* two are swapped, both moved one day on, and the count is negated.
BusdayCount(begin, end) ==
    LET swapped == begin > end
        b == IF swapped THEN end + 1 ELSE begin
        e == IF swapped THEN begin + 1 ELSE end
        whole_weeks == (e - b) \div 7
        count == BusdayLoop(b + whole_weeks * 7, e, whole_weeks * 5)
    IN  IF swapped THEN 0 - count ELSE count

get_business_days_Unguarded(start_date, end_date) ==
    BusdayCount(DateOf(start_date), DateOf(end_date))

get_business_days_EndIncluded(start_date, end_date) ==
    IF end_date < start_date
    THEN 0
    ELSE BusdayCount(DateOf(start_date) + 1, DateOf(end_date) + 1)

get_business_days(start_date, end_date) ==
    IF end_date < start_date
    THEN 0
    ELSE BusdayCount(DateOf(start_date), DateOf(end_date))

(***************************************************************************)
(* One call of get_business_days on every pair of datetimes of the range.  *)
(***************************************************************************)
Datetimes == 0 .. (MkDatetime(MaxDay + 1, 0) - 1)


\* the variables of a run, where no run is modelled
RunIdle ==
    /\ pc = "off"
    /\ check = NoCheck
    /\ started = <<>>
    /\ returned = {}
    /\ now = 0
    /\ done_field = ""
    /\ server_total = 0
    /\ all_issues = <<>>
    /\ start_at = 0
    /\ idx = 0
    /\ cur = NoTicket
    /\ search_failed = {}

\* no check is run twice
TwiceIdle ==
    /\ responses = <<>>
    /\ first_summary = <<>>

\* extract_field_value is not called
ExtractIdle ==
    /\ ef_field = <<>>
    /\ ef_default = <<>>
    /\ ef_result = <<>>

\* get_status_transition_date is not called
TransitionIdle ==
    /\ changelog = <<>>
    /\ target_status = ""
    /\ transition_date = NoDate

BusDaysIdle ==
    /\ bd_start = NoDate
    /\ bd_end = NoDate
    /\ bd_result = NoInt

BusDaysInit ==
    /\ bd_start \in Datetimes
    /\ bd_end \in Datetimes
    /\ bd_result = NoInt
    /\ summary = <<>>
    /\ calls = 0
    /\ RunIdle
    /\ TwiceIdle
    /\ ExtractIdle
    /\ TransitionIdle

CallGetBusinessDays ==
    /\ bd_start # NoDate
    /\ bd_result = NoInt
    /\ bd_result' = get_business_days(bd_start, bd_end)
    /\ UNCHANGED <<bd_start, bd_end, summary, calls>>
    /\ UNCHANGED runVars
    /\ UNCHANGED twiceVars
    /\ UNCHANGED efVars
    /\ UNCHANGED transitionVars

BusDaysNext == CallGetBusinessDays

SpecBusDays == BusDaysInit /\ [][BusDaysNext]_vars

\* the weekdays among the dates d with lo <= d <= hi
Weekdays(lo, hi) == {d \in lo .. hi : d % 7 \notin {5, 6}}

\* C10 as claimed: for start <= end the result counts the weekdays d with
\* start.date < d <= end.date (start date excluded, end date included).
C10_StartExcludedEndIncluded ==
    (bd_result # NoInt /\ bd_start <= bd_end)
        => bd_result = Cardinality(Weekdays(DateOf(bd_start) + 1, DateOf(bd_end)))

\* C10 amended: for start <= end, get_business_days(start, end) is the number
\* of weekdays d with start.date <= d < end.date (start date included, end
\* date excluded), whatever the times of day.
C10_StartIncludedEndExcluded ==
    (bd_result # NoInt /\ bd_start <= bd_end)
        => bd_result = Cardinality(Weekdays(DateOf(bd_start), DateOf(bd_end) - 1))

\* a Friday afternoon to the Saturday after it: one business day is counted
C10_Witness ==
    /\ bd_start = MkDatetime(4, 1)
    /\ bd_end = MkDatetime(5, 0)
    /\ bd_result = 1

(***************************************************************************)
(* sla_calculator.py: SLAResult and SLASummary                             *)
(***************************************************************************)
SLAResult(source_ticket, target_ticket, created_date, resolved_date, days_elapsed, target_days, status, elapsed_time_str) ==
    [source_ticket |-> source_ticket,
     target_ticket |-> target_ticket,
     created_date |-> created_date,
     resolved_date |-> resolved_date,
     days_elapsed |-> days_elapsed,
     target_days |-> target_days,
     status |-> status,
     elapsed_time_str |-> elapsed_time_str]

is_met(r) == r.status = "met"
is_breached_NotMet(r) == r.status # "met"

is_breached(r) == r.status = "breached"
is_in_progress(r) == r.status = "in_progress"

add_result_Prepend(results, result) == <<result>> \o results

add_result(results, result) == Append(results, result)

total_count(results) == Len(results)

\* sum(1 for r in self.results if r.is_met), a fold from the left
RECURSIVE met_count(_)
met_count(results) ==
    IF results = <<>> THEN 0
    ELSE (IF is_met(Head(results)) THEN 1 ELSE 0) + met_count(Tail(results))

RECURSIVE breached_count(_)
breached_count(results) ==
    IF results = <<>> THEN 0
    ELSE (IF is_breached(Head(results)) THEN 1 ELSE 0) + breached_count(Tail(results))

RECURSIVE in_progress_count(_)
in_progress_count(results) ==
    IF results = <<>> THEN 0
    ELSE (IF is_in_progress(Head(results)) THEN 1 ELSE 0)
             + in_progress_count(Tail(results))

\* A float is modelled as the exact fraction <<numerator, denominator>>.
compliance_rate_OverTotal(results) ==
    IF total_count(results) = 0
    THEN <<100, 1>>
    ELSE <<met_count(results) * 100, total_count(results)>>

compliance_rate(results) ==
    LET resolved == met_count(results) + breached_count(results)
    IN  IF resolved = 0
        THEN <<100, 1>>
        ELSE <<met_count(results) * 100, resolved>>

(***************************************************************************)
(* A Summary filled by add_result with Results of any status.              *)
(***************************************************************************)
Statuses == {"met", "breached", "in_progress"}

AnyResult(status) ==
    SLAResult(<<"A", "C", "S", "-", "1">>, NoKey, 0, NoDate, 0, 0, status, NoStr)

SummaryInit ==
    /\ summary = <<>>
    /\ calls = 0
    /\ BusDaysIdle
    /\ RunIdle
    /\ TwiceIdle
    /\ ExtractIdle
    /\ TransitionIdle

AddResult ==
    /\ pc = "off"
    /\ bd_start = NoDate
    /\ Len(summary) < MaxResults
    /\ \E status \in Statuses : summary' = add_result(summary, AnyResult(status))
    /\ calls' = calls + 1
    /\ UNCHANGED bdVars
    /\ UNCHANGED twiceVars
    /\ UNCHANGED efVars
    /\ UNCHANGED transitionVars
    /\ UNCHANGED runVars

SummaryNext == AddResult

SpecSummary == SummaryInit /\ [][SummaryNext]_vars

\* the number of results of the summary with the given status
NumberWith(status) ==
    Cardinality({i \in DOMAIN summary : summary[i].status = status})

FractionEq(f, num, den) == f[2] > 0 /\ f[1] * den = num * f[2]

\* C7: compliance_rate is met / (met + breached) * 100 when met + breached > 0,
\* and 100 when met + breached = 0, however many results are in progress.
C7_ComplianceRate ==
    LET m == NumberWith("met")
        b == NumberWith("breached")
    IN  IF m + b > 0
        THEN FractionEq(compliance_rate(summary), m * 100, m + b)
        ELSE FractionEq(compliance_rate(summary), 100, 1)

\* 3 met, 1 breached, 2 in progress: the rate is 75
C7_Witness ==
    /\ NumberWith("met") = 3
    /\ NumberWith("breached") = 1
    /\ NumberWith("in_progress") = 2
    /\ FractionEq(compliance_rate(summary), 75, 1)

(***************************************************************************)
(* config.py                                                               *)
(***************************************************************************)
PROJECT_A == <<"A", "C", "S">>
PROJECT_B == <<"L", "P", "M">>

IdentificationTargetDays == 30
ResolutionTargetDays == 60
FirstResponseTargetDays == 2

Identification == "identification_resolution_config"
Resolution == "resolution_config"
FirstResponse == "first_response"

\* SLA_DEFINITIONS[name]; the shipped resolution_config names no
\* config_done_date_field, a deployment may add one
SLA_DEFINITIONS(name) ==
    CASE name = Identification ->
            [target_project |-> PROJECT_B,
             target_category |-> "break fix",
             target_days |-> IdentificationTargetDays]
      [] name = Resolution ->
            [target_project |-> PROJECT_B,
             target_status |-> "ready to build",
             config_done_date_field |-> done_field,
             target_days |-> ResolutionTargetDays]
      [] name = FirstResponse ->
            [target_days |-> FirstResponseTargetDays]

\* search_issues(jql, fields, max_results=100)
max_results == 100

(***************************************************************************)
(* Strings.  An issue key is the sequence of its characters; str.lower is   *)
(* given on the strings the model uses.                                    *)
(***************************************************************************)
StartsWith(s, prefix) ==
    /\ Len(s) >= Len(prefix)
    /\ SubSeq(s, 1, Len(prefix)) = prefix

Lower(s) ==
    CASE s = "Break Fix" -> "break fix"
      [] s = "Enhancement" -> "enhancement"
      [] s = "Closed" -> "closed"
      [] s = "RESOLVED" -> "resolved"
      [] s = "Canceled" -> "canceled"
      [] s = "Open" -> "open"
      [] s = "Unknown" -> "unknown"
      [] s = "Ready to Build" -> "ready to build"
      [] s = "Done" -> "done"
      [] s = "DONE" -> "done"
      [] OTHER -> s

IssueKey(project, n) == project \o <<"-", ToString(n)>>

(***************************************************************************)
(* The tracker's data, as far as the bounds go.                            *)
(***************************************************************************)
MaxTickets == 2
MaxLinks == 2
MaxComments == 2

\* the date on which target_days business days have passed since date 0
DeadlineDay(target_days) == (target_days \div 5) * 7 + (target_days % 5)

\* every source ticket that has a created value was created on date 0
SourceCreated == MkDatetime(0, 1)
OnTime(target_days) == MkDatetime(DeadlineDay(target_days), 0)
Late(target_days) == MkDatetime(DeadlineDay(target_days) + 1, 0)

\* a check runs on the deadline of its SLA or on the day after
Nows(target_days) == {OnTime(target_days) + 1, Late(target_days) + 1}

\* the timestamps a linked ticket may carry for an SLA: none is in the future
LinkedDates(target_days) ==
    {d \in {OnTime(target_days), Late(target_days)} : d <= now}

\* the keys the n-th issue link of a ticket may name: an issue of the source
\* project, the first linked issue of the target project again, or the n-th
LinkedKeys(n) ==
    {IssueKey(PROJECT_A, 9), IssueKey(PROJECT_B, 1), IssueKey(PROJECT_B, n)}

Categories == {"Break Fix", "Enhancement"}

\* ticket["fields"]["status"]["name"]; "" stands for a missing name too
StatusNames == {"", "Closed", "RESOLVED", "Open"}

\* an issue link without outwardIssue and inwardIssue
NoIssue ==
    [key |-> NoKey, fetch |-> "no_issue", category |-> "", date |-> NoDate,
     transition |-> NoDate]
\* a link to a key that get_issue is not asked for
Skipped(key) ==
    [key |-> key, fetch |-> "skipped", category |-> "", date |-> NoDate,
     transition |-> NoDate]
\* a link whose get_issue raised
Failed(key) ==
    [key |-> key, fetch |-> "failed", category |-> "", date |-> NoDate,
     transition |-> NoDate]
\* a link whose get_issue answered: the category string extracted from the
\* answer and the parsed date the check reads (created, or the done date)
Fetched(key, category, date) ==
    [key |-> key, fetch |-> "ok", category |-> category, date |-> date,
     transition |-> NoDate]

\* The change history of a linked ticket, as far as the SLA goes: the created
\* of its first entry with a status item into target_status, which
\* get_status_transition_date would return, or NoDate.  No check asks for it;
\* it is kept with the link for the definition whose predicate is the status.
Transitioned(link, transition) == [link EXCEPT !.transition = transition]

Transitions(name) ==
    IF name = Resolution /\ done_field = ""
    THEN LinkedDates(SLA_DEFINITIONS(name).target_days) \cup {NoDate}
    ELSE {NoDate}


(***************************************************************************)
(* jira_client.py: search_issues, and the start of a check                 *)
(***************************************************************************)
Min(a, b) == IF a < b THEN a ELSE b

\* the issues a page holds: the server's issues startAt+1 .. startAt+k
Page(first, k) == [i \in 1 .. k |-> first + i]

\* a check builds its Summary and calls search_issues
StartCheck(name) ==
    /\ check' = name
    /\ started' = Append(started, name)
    /\ summary' = <<>>
    /\ calls' = 0
    /\ pc' = "search"
    /\ server_total' \in 0 .. MaxTickets
    /\ all_issues' = <<>>
    /\ start_at' = 0
    /\ idx' = 0
    /\ cur' = NoTicket
    /\ now' \in Nows(SLA_DEFINITIONS(name).target_days)
    /\ UNCHANGED <<returned, search_failed>>
    /\ UNCHANGED bdVars
    /\ UNCHANGED twiceVars
    /\ UNCHANGED efVars
    /\ UNCHANGED transitionVars

\* main.py run_sla_checks: the identification check comes first
RunSlaChecks ==
    /\ pc = "idle"
    /\ started = <<>>
    /\ StartCheck(Identification)
    /\ UNCHANGED done_field

\* main.py run_sla_checks: the resolution check follows the summary of the first
RunSecondCheck ==
    /\ pc = "returned"
    /\ check = Identification
    /\ StartCheck(Resolution)
    /\ done_field' \in {"", "customfield_done"}

\* check_first_response is called on its own
CallFirstResponse ==
    /\ pc = "idle"
    /\ started = <<>>
    /\ StartCheck(FirstResponse)
    /\ UNCHANGED done_field

\* where the run stands once _make_request has raised in search_issues: the
\* checks and run_sla_checks catch nothing, main reports the error and exits
SearchErrorReturnsPartial == "tickets"

SearchError == "raised"

\* one page request of search_issues fails
SearchPageFails ==
    /\ pc = "search"
    /\ pc' = SearchError
    /\ search_failed' = search_failed \cup {check}
    /\ UNCHANGED <<check, started, returned, now, done_field, server_total,
                   all_issues, start_at, idx, cur, summary, calls>>
    /\ UNCHANGED bdVars
    /\ UNCHANGED twiceVars
    /\ UNCHANGED efVars
    /\ UNCHANGED transitionVars

\* data.get("total", 0): a server reports the number of matching issues with
\* every page or with none; where the loop asks for a further page, the server
\* is one that reports it
Totals ==
    IF start_at = 0 THEN {server_total, 0} ELSE {server_total}

\* one page request of search_issues answers: at most max_results issues from
\* startAt on, and the total where the server reports one
SearchPage ==
    /\ pc = "search"
    /\ LET remaining == server_total - start_at
       IN  \E k \in (IF remaining = 0 THEN {0} ELSE 1 .. Min(remaining, max_results)) :
           \E total \in Totals :
               /\ all_issues' = all_issues \o Page(start_at, k)
               /\ start_at' = start_at + k
               /\ pc' = IF start_at + k >= total \/ k = 0
                        THEN "tickets" ELSE "search"
    /\ UNCHANGED <<check, started, returned, now, done_field, server_total,
                   idx, cur, summary, calls, search_failed>>
    /\ UNCHANGED bdVars
    /\ UNCHANGED twiceVars
    /\ UNCHANGED efVars
    /\ UNCHANGED transitionVars

(***************************************************************************)
(* sla_checker.py: the start of a ticket's evaluation, common to the three *)
(* checks: the key, and created parsed or replaced by datetime.now()       *)
(***************************************************************************)
\* created_date = parse_jira_date(created_str), replaced by the epoch
CreatedDate_OrEpoch(created) == IF created = NoDate THEN 0 ELSE created

\* created_date = parse_jira_date(created_str); if not created_date:
\* created_date = datetime.now()
CreatedDate(created) == IF created = NoDate THEN now ELSE created

BeginTicket ==
    /\ pc = "tickets"
    /\ idx < Len(all_issues)
    /\ idx' = idx + 1
    /\ \E created \in {NoDate, SourceCreated} :
           cur' = [NoTicket EXCEPT
                     !.key = IssueKey(PROJECT_A, all_issues[idx + 1]),
                     !.created = created,
                     !.created_date = CreatedDate(created)]
    /\ pc' = IF check = FirstResponse THEN "comments" ELSE "links"
    /\ UNCHANGED <<check, started, returned, now, done_field, server_total,
                   all_issues, start_at, summary, calls, search_failed>>
    /\ UNCHANGED bdVars
    /\ UNCHANGED twiceVars
    /\ UNCHANGED efVars
    /\ UNCHANGED transitionVars

\* the loop over the source tickets has ended: the check returns its Summary
ReturnSummary ==
    /\ pc = "tickets"
    /\ idx = Len(all_issues)
    /\ pc' = "returned"
    /\ returned' = returned \cup {check}
    /\ cur' = NoTicket
    /\ UNCHANGED <<check, started, now, done_field, server_total, all_issues,
                   start_at, idx, summary, calls, search_failed>>
    /\ UNCHANGED bdVars
    /\ UNCHANGED twiceVars
    /\ UNCHANGED efVars
    /\ UNCHANGED transitionVars

(***************************************************************************)
(* sla_checker.py: what the three evaluations share in shape               *)
(***************************************************************************)
get_business_days_elapsed(start_date) == get_business_days(start_date, now)

IsTargetLink_AnyKey(sla_config, linked_key) == linked_key # NoKey

\* lines 404-415 and 300-306: the link names an issue of the target project
IsTargetLink(sla_config, linked_key) ==
    /\ linked_key # NoKey
    /\ StartsWith(linked_key, sla_config.target_project)

\* key=lambda c: c[1] or datetime.min
SortKey(c) == IF c.date = NoDate THEN DatetimeMin ELSE c.date

\* list.sort(key=..., reverse=True) is stable: candidates with equal keys keep
\* their order
RECURSIVE InsertDescending_LastOfEqualFirst(_, _)
InsertDescending_LastOfEqualFirst(sorted, c) ==
    IF sorted = <<>> THEN <<c>>
    ELSE IF SortKey(Head(sorted)) > SortKey(c)
         THEN <<Head(sorted)>> \o InsertDescending_LastOfEqualFirst(Tail(sorted), c)
         ELSE <<c>> \o sorted

\* a sort that keeps the order of equal keys on a first run only
RECURSIVE InsertDescending_TiesByRun(_, _)
InsertDescending_TiesByRun(sorted, c) ==
    IF sorted = <<>> THEN <<c>>
    ELSE IF \/ SortKey(Head(sorted)) > SortKey(c)
            \/ (SortKey(Head(sorted)) = SortKey(c) /\ Len(started) = 1)
         THEN <<Head(sorted)>> \o InsertDescending_TiesByRun(Tail(sorted), c)
         ELSE <<c>> \o sorted

RECURSIVE InsertDescending(_, _)
InsertDescending(sorted, c) ==
    IF sorted = <<>> THEN <<c>>
    ELSE IF SortKey(Head(sorted)) >= SortKey(c)
         THEN <<Head(sorted)>> \o InsertDescending(Tail(sorted), c)
         ELSE <<c>> \o sorted

RECURSIVE SortDescending(_)
SortDescending(candidates) ==
    IF candidates = <<>> THEN <<>>
    ELSE InsertDescending(SortDescending(SubSeq(candidates, 1, Len(candidates) - 1)),
                          candidates[Len(candidates)])

Candidate(key, date) == [key |-> key, date |-> date]

(***************************************************************************)
(* sla_checker.py: _evaluate_ticket, the identification check              *)
(***************************************************************************)
evaluate_ticket_link_FailureDropsCandidates(sla_config, candidates, link) ==
    IF link.fetch = "failed" THEN <<>>
    ELSE IF /\ link.fetch = "ok"
            /\ Lower(link.category) = Lower(sla_config.target_category)
         THEN Append(candidates, Candidate(link.key, link.date))
         ELSE candidates

\* the body of the link loop once get_issue has answered or raised
evaluate_ticket_link(sla_config, candidates, link) ==
    IF /\ link.fetch = "ok"
       /\ Lower(link.category) = Lower(sla_config.target_category)
    THEN Append(candidates, Candidate(link.key, link.date))
    ELSE candidates

evaluate_ticket_result_StrictDeadline(ticket_key, created_date, candidates, sla_config) ==
    LET sorted == SortDescending(candidates)
        target_ticket == IF candidates # <<>> THEN sorted[1].key ELSE NoKey
        resolved_date == IF candidates # <<>> THEN sorted[1].date ELSE NoDate
        days_elapsed == IF resolved_date # NoDate
                        THEN get_business_days(created_date, resolved_date)
                        ELSE get_business_days_elapsed(created_date)
        target_days == sla_config.target_days
        status == IF target_ticket # NoKey /\ resolved_date # NoDate
                  THEN (IF days_elapsed < target_days THEN "met" ELSE "breached")
                  ELSE (IF days_elapsed >= target_days THEN "breached" ELSE "in_progress")
    IN  SLAResult(ticket_key, target_ticket, created_date, resolved_date,
                  days_elapsed, target_days, status, NoStr)

\* after the link loop: the selection, the elapsed days and the status
evaluate_ticket_result(ticket_key, created_date, candidates, sla_config) ==
    LET sorted == SortDescending(candidates)
        target_ticket == IF candidates # <<>> THEN sorted[1].key ELSE NoKey
        resolved_date == IF candidates # <<>> THEN sorted[1].date ELSE NoDate
        days_elapsed == IF resolved_date # NoDate
                        THEN get_business_days(created_date, resolved_date)
                        ELSE get_business_days_elapsed(created_date)
        target_days == sla_config.target_days
        status == IF target_ticket # NoKey /\ resolved_date # NoDate
                  THEN (IF days_elapsed <= target_days THEN "met" ELSE "breached")
                  ELSE (IF days_elapsed > target_days THEN "breached" ELSE "in_progress")
    IN  SLAResult(ticket_key, target_ticket, created_date, resolved_date,
                  days_elapsed, target_days, status, NoStr)

(***************************************************************************)
(* sla_checker.py: _evaluate_ticket_resolution, the resolution check       *)
(***************************************************************************)
evaluate_ticket_resolution_link_AnyFetched(sla_config, candidates, link) ==
    LET config_done_date == IF sla_config.config_done_date_field = ""
                            THEN NoDate ELSE link.date
    IN  IF link.fetch = "ok"
        THEN Append(candidates, Candidate(link.key, config_done_date))
        ELSE candidates

\* a mutation of evaluate_ticket_resolution_link: without a done-date field
\* the ticket's transition into target_status makes it a candidate
evaluate_ticket_resolution_link_ByTransition(sla_config, candidates, link) ==
    LET config_done_date == IF sla_config.config_done_date_field = ""
                            THEN link.transition ELSE link.date
    IN  IF link.fetch = "ok" /\ config_done_date # NoDate
        THEN Append(candidates, Candidate(link.key, config_done_date))
        ELSE candidates

evaluate_ticket_resolution_link(sla_config, candidates, link) ==
    LET config_done_date == IF sla_config.config_done_date_field = ""
                            THEN NoDate ELSE link.date
    IN  IF link.fetch = "ok" /\ config_done_date # NoDate
        THEN Append(candidates, Candidate(link.key, config_done_date))
        ELSE candidates

evaluate_ticket_resolution_result_MetWhenUnresolved(ticket_key, created_date, candidates, sla_config) ==
    LET sorted == SortDescending(candidates)
        target_ticket == IF candidates # <<>> THEN sorted[1].key ELSE NoKey
        resolved_date == IF candidates # <<>> THEN sorted[1].date ELSE NoDate
        days_elapsed == IF resolved_date # NoDate
                        THEN get_business_days(created_date, resolved_date)
                        ELSE get_business_days_elapsed(created_date)
        target_days == sla_config.target_days
        status == IF days_elapsed <= target_days THEN "met" ELSE "breached"
    IN  SLAResult(ticket_key, target_ticket, created_date, resolved_date,
                  days_elapsed, target_days, status, NoStr)

evaluate_ticket_resolution_result(ticket_key, created_date, candidates, sla_config) ==
    LET sorted == SortDescending(candidates)
        target_ticket == IF candidates # <<>> THEN sorted[1].key ELSE NoKey
        resolved_date == IF candidates # <<>> THEN sorted[1].date ELSE NoDate
        days_elapsed == IF resolved_date # NoDate
                        THEN get_business_days(created_date, resolved_date)
                        ELSE get_business_days_elapsed(created_date)
        target_days == sla_config.target_days
        status == IF target_ticket # NoKey /\ resolved_date # NoDate
                  THEN (IF days_elapsed <= target_days THEN "met" ELSE "breached")
                  ELSE (IF days_elapsed > target_days THEN "breached" ELSE "in_progress")
    IN  SLAResult(ticket_key, target_ticket, created_date, resolved_date,
                  days_elapsed, target_days, status, NoStr)

(***************************************************************************)
(* The link loop of the two checks, one link a step.                       *)
(***************************************************************************)
LinkBody(candidates, link) ==
    IF check = Identification
    THEN evaluate_ticket_link(SLA_DEFINITIONS(check), candidates, link)
    ELSE evaluate_ticket_resolution_link(SLA_DEFINITIONS(check), candidates, link)

\* the tracker does not change while a ticket is evaluated: a linked ticket
\* that is asked for again has the details and the history it had before
Unchanged(link) ==
    \A i \in DOMAIN cur.links :
        (cur.links[i].key = link.key /\ cur.links[i].fetch \in {"ok", "failed"}) =>
            /\ cur.links[i].transition = link.transition
            /\ (cur.links[i].fetch = "ok" /\ link.fetch = "ok") =>
                   /\ cur.links[i].category = link.category
                   /\ cur.links[i].date = link.date

\* requests: the keys get_issue was called with for the ticket, in order
ScanLink(link) ==
    /\ Unchanged(link)
    /\ cur' = [cur EXCEPT !.links = Append(@, link),
                          !.requests = IF link.fetch \in {"ok", "failed"}
                                       THEN Append(@, link.key) ELSE @,
                          !.candidates = LinkBody(@, link)]
    /\ UNCHANGED <<pc, check, started, returned, now, done_field, server_total,
                   all_issues, start_at, idx, summary, calls, search_failed>>
    /\ UNCHANGED bdVars
    /\ UNCHANGED twiceVars
    /\ UNCHANGED efVars
    /\ UNCHANGED transitionVars

InLinkLoop ==
    /\ pc = "links"
    /\ Len(cur.links) < MaxLinks

\* the link has no outwardIssue and no inwardIssue, or names an issue of
\* another project: continue, get_issue is not called
SkipLink ==
    /\ InLinkLoop
    /\ \E linked_key \in LinkedKeys(Len(cur.links) + 1) \cup {NoKey} :
           /\ ~IsTargetLink(SLA_DEFINITIONS(check), linked_key)
           /\ ScanLink(IF linked_key = NoKey THEN NoIssue ELSE Skipped(linked_key))

\* get_issue raises: the except clause logs and continues
FetchLinkFails ==
    /\ InLinkLoop
    /\ \E linked_key \in LinkedKeys(Len(cur.links) + 1) :
           /\ IsTargetLink(SLA_DEFINITIONS(check), linked_key)
           /\ \E transition \in Transitions(check) :
                  ScanLink(Transitioned(Failed(linked_key), transition))

\* the fields of the answer the check reads: the identification check reads
\* created where the category matches; the resolution check reads the done
\* date, which is None where the definition names no done-date field
\* (linked_ticket_fields.get("")), and keeps the category for display only
\* (one value stands for it)
Reads(name, category, date) ==
    IF name = Identification
    THEN Lower(category) # Lower(SLA_DEFINITIONS(name).target_category) => date = NoDate
    ELSE /\ category = "Enhancement"
         /\ SLA_DEFINITIONS(name).config_done_date_field = "" => date = NoDate

\* get_issue answers with the linked ticket's fields
FetchLink ==
    /\ InLinkLoop
    /\ \E linked_key \in LinkedKeys(Len(cur.links) + 1) :
           /\ IsTargetLink(SLA_DEFINITIONS(check), linked_key)
           /\ \E category \in Categories :
              \E date \in LinkedDates(SLA_DEFINITIONS(check).target_days) \cup {NoDate} :
              \E transition \in Transitions(check) :
                  /\ Reads(check, category, date)
                  /\ ScanLink(Transitioned(Fetched(linked_key, category, date),
                                           transition))

\* issue_links is exhausted: the rest of the evaluation, up to the Result
FinishTicket ==
    /\ pc = "links"
    /\ cur' = [cur EXCEPT !.result =
                 IF check = Identification
                 THEN evaluate_ticket_result(cur.key, cur.created_date,
                                             cur.candidates, SLA_DEFINITIONS(check))
                 ELSE evaluate_ticket_resolution_result(cur.key, cur.created_date,
                                             cur.candidates, SLA_DEFINITIONS(check))]
    /\ pc' = "filter"
    /\ UNCHANGED <<check, started, returned, now, done_field, server_total,
                   all_issues, start_at, idx, summary, calls, search_failed>>
    /\ UNCHANGED bdVars
    /\ UNCHANGED twiceVars
    /\ UNCHANGED efVars
    /\ UNCHANGED transitionVars

(***************************************************************************)
(* sla_checker.py: the inclusion filter of the identification and the      *)
(* resolution check, lines 101-114 and 148-160                             *)
(***************************************************************************)
excluded_statuses == {"closed", "resolved", "canceled"}

IsExcluded_IgnoringTarget(result, status_name) ==
    Lower(status_name) \in excluded_statuses

IsExcluded(result, status_name) ==
    /\ result.target_ticket = NoKey
    /\ Lower(status_name) \in excluded_statuses

FilterResult ==
    /\ pc = "filter"
    /\ \E status_name \in StatusNames :
           /\ cur' = [NoTicket EXCEPT
                         !.key = cur.key,
                         !.created = cur.created,
                         !.created_date = cur.created_date,
                         !.status_name = status_name,
                         !.result = cur.result,
                         !.included = ~IsExcluded(cur.result, status_name)]
           /\ summary' = IF IsExcluded(cur.result, status_name)
                         THEN summary
                         ELSE add_result(summary, cur.result)
           /\ calls' = IF IsExcluded(cur.result, status_name)
                       THEN calls
                       ELSE calls + 1
    /\ pc' = "tickets"
    /\ UNCHANGED <<check, started, returned, now, done_field, server_total,
                   all_issues, start_at, idx, search_failed>>
    /\ UNCHANGED bdVars
    /\ UNCHANGED twiceVars
    /\ UNCHANGED efVars
    /\ UNCHANGED transitionVars

(***************************************************************************)
(* sla_calculator.py: format_elapsed_time; "Xd Yh Zm" is <<X, Y, Z>>       *)
(***************************************************************************)
MinutesPerTick == (24 * 60) \div TicksPerDay

format_elapsed_time(start, end) ==
    LET total_minutes == (end - start) * MinutesPerTick
    IN  IF end - start < 0
        THEN <<0, 0, 0>>
        ELSE <<total_minutes \div (24 * 60),
               (total_minutes % (24 * 60)) \div 60,
               total_minutes % 60>>

(***************************************************************************)
(* sla_checker.py: check_first_response, the body of its ticket loop       *)
(***************************************************************************)
Comment(accountType, jsdPublic, visibility, created) ==
    [accountType |-> accountType, jsdPublic |-> jsdPublic,
     visibility |-> visibility, created |-> created]

\* lines 217-235: an internal author, and public
CountsAsResponse(comment) ==
    /\ comment.accountType = "atlassian"
    /\ IF comment.jsdPublic # "None"
       THEN comment.jsdPublic = "True"
       ELSE comment.visibility = "None"

RECURSIVE FirstResponseDate_FirstInList(_, _)
FirstResponseDate_FirstInList(comments, first_response_date) ==
    IF comments = <<>> THEN first_response_date
    ELSE LET comment == Head(comments)
             comment_date == comment.created
         IN  FirstResponseDate_FirstInList(Tail(comments),
                 IF /\ CountsAsResponse(comment)
                    /\ comment_date # NoDate
                    /\ first_response_date = NoDate
                 THEN comment_date
                 ELSE first_response_date)

\* lines 215-240: the earliest created of the comments that count
RECURSIVE FirstResponseDate(_, _)
FirstResponseDate(comments, first_response_date) ==
    IF comments = <<>> THEN first_response_date
    ELSE LET comment == Head(comments)
             comment_date == comment.created
         IN  FirstResponseDate(Tail(comments),
                 IF /\ CountsAsResponse(comment)
                    /\ comment_date # NoDate
                    /\ (first_response_date = NoDate \/ comment_date < first_response_date)
                 THEN comment_date
                 ELSE first_response_date)

\* a mutation of first_response_result: no elapsed_time_str without a response
first_response_result_ElapsedStrWhenResponded(ticket_key, created_date, comments, sla_config) ==
    LET first_response_date == FirstResponseDate(comments, NoDate)
        days_elapsed == IF first_response_date # NoDate
                        THEN get_business_days(created_date, first_response_date)
                        ELSE get_business_days_elapsed(created_date)
        elapsed_time_str == IF first_response_date # NoDate
                            THEN format_elapsed_time(created_date, first_response_date)
                            ELSE NoStr
        target_days == sla_config.target_days
        status == IF first_response_date # NoDate
                  THEN (IF days_elapsed <= target_days THEN "met" ELSE "breached")
                  ELSE (IF days_elapsed > target_days THEN "breached" ELSE "in_progress")
    IN  SLAResult(ticket_key, NoKey, created_date, first_response_date,
                  days_elapsed, target_days, status, elapsed_time_str)

first_response_result(ticket_key, created_date, comments, sla_config) ==
    LET first_response_date == FirstResponseDate(comments, NoDate)
        days_elapsed == IF first_response_date # NoDate
                        THEN get_business_days(created_date, first_response_date)
                        ELSE get_business_days_elapsed(created_date)
        elapsed_time_str == IF first_response_date # NoDate
                            THEN format_elapsed_time(created_date, first_response_date)
                            ELSE format_elapsed_time(created_date, now)
        target_days == sla_config.target_days
        status == IF first_response_date # NoDate
                  THEN (IF days_elapsed <= target_days THEN "met" ELSE "breached")
                  ELSE (IF days_elapsed > target_days THEN "breached" ELSE "in_progress")
    IN  SLAResult(ticket_key, NoKey, created_date, first_response_date,
                  days_elapsed, target_days, status, elapsed_time_str)

\* the comments the tracker may hold: none is older than the ticket or in the
\* future; a customer's comment is public, an internal account's comment
\* carries any of the visibility markings
CommentDates ==
    {d \in {OnTime(FirstResponseTargetDays), Late(FirstResponseTargetDays)} : d <= now}

Markings(accountType) ==
    IF accountType = "atlassian"
    THEN {<<"None", "None">>, <<"None", "role">>, <<"True", "role">>, <<"False", "None">>}
    ELSE {<<"None", "None">>}

Comments ==
    UNION {{Comment(a, p[1], p[2], c) : p \in Markings(a), c \in CommentDates \cup {NoDate}} :
              a \in {"atlassian", "customer"}}

CommentLists == UNION {[1 .. n -> Comments] : n \in 0 .. MaxComments}

\* the rest of the loop body once the comments are known; the ticket has a
\* status, which the search asked for and the loop does not read
RespondTo(comments, fetch) ==
    LET result == first_response_result(cur.key, cur.created_date, comments,
                                        SLA_DEFINITIONS(check))
    IN  /\ \E status_name \in {"Closed", "Open"} :
               cur' = [cur EXCEPT !.comments = comments,
                                  !.links = <<[fetch |-> fetch]>>,
                                  !.status_name = status_name,
                                  !.result = result,
                                  !.included = TRUE]
        /\ summary' = add_result(summary, result)
        /\ calls' = calls + 1
        /\ pc' = "tickets"
        /\ UNCHANGED <<check, started, returned, now, done_field, server_total,
                       all_issues, start_at, idx, search_failed>>
        /\ UNCHANGED bdVars
        /\ UNCHANGED twiceVars
        /\ UNCHANGED efVars
        /\ UNCHANGED transitionVars

\* get_issue_comments raises: comments = []
FetchCommentsFails ==
    /\ pc = "comments"
    /\ RespondTo(<<>>, "failed")

\* get_issue_comments answers
FetchComments ==
    /\ pc = "comments"
    /\ \E comments \in CommentLists : RespondTo(comments, "ok")

(***************************************************************************)
(* The clock.  A ticket's evaluation reads datetime.now() where it replaces *)
(* a missing created value and again where it computes the elapsed days;    *)
(* the requests for the linked tickets or the comments lie in between, and  *)
(* the clock advances while they are under way.                            *)
(***************************************************************************)
\* the clock of the model stops at the latest time a check may start at
LastNow(target_days) == Late(target_days) + 1

Tick ==
    /\ pc \in {"links", "comments"}
    /\ now < LastNow(SLA_DEFINITIONS(check).target_days)
    /\ now' = now + 1
    /\ UNCHANGED <<check, started, returned, done_field, server_total, all_issues,
                   start_at, idx, cur, summary, calls, search_failed, pc>>
    /\ UNCHANGED bdVars
    /\ UNCHANGED twiceVars
    /\ UNCHANGED efVars
    /\ UNCHANGED transitionVars

(***************************************************************************)
(* The run.                                                                *)
(***************************************************************************)
\* run_sla_checks has shown the second summary, or check_first_response has
\* handed its Summary to its caller
RunDone ==
    /\ pc = "returned"
    /\ check \in {Resolution, FirstResponse}
    /\ pc' = "done"
    /\ UNCHANGED <<check, started, returned, now, done_field, server_total,
                   all_issues, start_at, idx, cur, summary, calls, search_failed>>
    /\ UNCHANGED bdVars
    /\ UNCHANGED twiceVars
    /\ UNCHANGED efVars
    /\ UNCHANGED transitionVars

Init ==
    /\ pc = "idle"
    /\ check = NoCheck
    /\ started = <<>>
    /\ returned = {}
    /\ now = 0
    /\ done_field = ""
    /\ server_total = 0
    /\ all_issues = <<>>
    /\ start_at = 0
    /\ idx = 0
    /\ cur = NoTicket
    /\ search_failed = {}
    /\ summary = <<>>
    /\ calls = 0
    /\ BusDaysIdle
    /\ TwiceIdle
    /\ ExtractIdle
    /\ TransitionIdle

Next ==
    \/ RunSlaChecks
    \/ RunSecondCheck
    \/ CallFirstResponse
    \/ SearchPageFails
    \/ SearchPage
    \/ BeginTicket
    \/ ReturnSummary
    \/ SkipLink
    \/ FetchLinkFails
    \/ FetchLink
    \/ FinishTicket
    \/ FilterResult
    \/ FetchCommentsFails
    \/ FetchComments
    \/ Tick
    \/ RunDone

Spec == Init /\ [][Next]_vars

(***************************************************************************)
(* Properties of the Results.                                              *)
(***************************************************************************)
\* every Result produced so far by the running check: those of its Summary and
\* the one of the ticket at hand, which the inclusion filter may yet drop
AllResults ==
    {summary[i] : i \in DOMAIN summary}
        \cup (IF cur.result = NoResult THEN {} ELSE {cur.result})

\* C1: with resolved_date present the status is met exactly when
\* days_elapsed <= target_days and breached otherwise; with resolved_date
\* absent it is breached exactly when days_elapsed > target_days and
\* in_progress otherwise.
C1_StatusClassification ==
    \A r \in AllResults :
        IF r.resolved_date # NoDate
        THEN /\ r.days_elapsed <= r.target_days => r.status = "met"
             /\ r.days_elapsed > r.target_days => r.status = "breached"
        ELSE /\ r.days_elapsed > r.target_days => r.status = "breached"
             /\ r.days_elapsed <= r.target_days => r.status = "in_progress"

\* a Summary with a resolved and an unresolved Result, both exactly on the
\* deadline: met and in_progress
C1_Witness ==
    /\ \E i \in DOMAIN summary :
           /\ summary[i].resolved_date # NoDate
           /\ summary[i].days_elapsed = summary[i].target_days
           /\ summary[i].status = "met"
    /\ \E i \in DOMAIN summary :
           /\ summary[i].resolved_date = NoDate
           /\ summary[i].days_elapsed = summary[i].target_days
           /\ summary[i].status = "in_progress"

C3_InProgressImpliesNoTarget ==
    \A r \in AllResults :
        r.status = "in_progress" =>
            (r.target_ticket = NoKey /\ r.days_elapsed <= r.target_days)

(***************************************************************************)
(* Properties of the selection among the linked tickets, stated where the  *)
(* evaluation of a ticket has produced its Result and the links it scanned *)
(* are still at hand.                                                      *)
(***************************************************************************)
Evaluated(name) ==
    /\ pc = "filter"
    /\ check = name

\* the first of the links of I with the latest date
IsLatestFirst(i, I) ==
    /\ i \in I
    /\ \A j \in I : \/ cur.links[j].date < cur.links[i].date
                    \/ (cur.links[j].date = cur.links[i].date /\ i <= j)

\* the links whose ticket was fetched and carries the target category
Matching ==
    {i \in DOMAIN cur.links :
        /\ cur.links[i].fetch = "ok"
        /\ cur.links[i].category \in {"break fix", "Break Fix", "BREAK FIX"}}

\* C4: of the fetched target-project tickets with the target category, the
\* one with the latest created timestamp is the target_ticket and that
\* timestamp the resolved_date; of several with the latest timestamp, the
\* first in link order; and with no such ticket both stay unset.
C4_LatestCreatedWins ==
    Evaluated(Identification) =>
        LET dated == {i \in Matching : cur.links[i].date # NoDate}
        IN  /\ \A i \in dated :
                   IsLatestFirst(i, dated) =>
                       /\ cur.result.target_ticket = cur.links[i].key
                       /\ cur.result.resolved_date = cur.links[i].date
            /\ Matching = {} =>
                   /\ cur.result.target_ticket = NoKey
                   /\ cur.result.resolved_date = NoDate

\* two matching linked tickets created at the same time: the first is chosen
C4_Witness ==
    /\ Evaluated(Identification)
    /\ Matching = {1, 2}
    /\ cur.links[1].date # NoDate
    /\ cur.links[1].date = cur.links[2].date
    /\ cur.result.target_ticket = cur.links[1].key
    /\ cur.result.target_ticket # cur.links[2].key

\* the links whose ticket was fetched and carries a done date
WithDoneDate ==
    {i \in DOMAIN cur.links :
        cur.links[i].fetch = "ok" /\ cur.links[i].date # NoDate}

\* C5: where the SLA definition names a done-date field, a fetched
\* target-project ticket with the latest done date is the target_ticket and
\* that date the resolved_date; a ticket without a done date is never chosen.
C5_LatestDoneDateWins ==
    (Evaluated(Resolution) /\ done_field # "") =>
        IF WithDoneDate = {}
        THEN cur.result.target_ticket = NoKey /\ cur.result.resolved_date = NoDate
        ELSE \E i \in WithDoneDate :
                 /\ \A j \in WithDoneDate : cur.links[j].date <= cur.links[i].date
                 /\ cur.result.target_ticket = cur.links[i].key
                 /\ cur.result.resolved_date = cur.links[i].date

\* a ticket without a done date, then two with one: the later date is chosen
C5_Witness ==
    /\ Evaluated(Resolution)
    /\ done_field # ""
    /\ Len(cur.links) = 2
    /\ WithDoneDate = {1, 2}
    /\ cur.links[1].date < cur.links[2].date
    /\ cur.result.target_ticket = cur.links[2].key
    /\ cur.result.resolved_date = cur.links[2].date

\* the status names of the closed-state set, in any case
ClosedStateNames ==
    {"closed", "Closed", "CLOSED", "resolved", "Resolved", "RESOLVED",
     "canceled", "Canceled", "CANCELED"}

\* C6: in the identification and the resolution check, a source ticket for
\* which no target ticket was resolved and whose own status is closed,
\* resolved or canceled in any case is left out of summary.results and of
\* total_count; every other evaluated source ticket is added to the summary.
C6_InclusionFilter ==
    [][(pc = "filter" /\ pc' = "tickets") =>
          IF /\ cur.result.target_ticket = NoKey
             /\ cur'.status_name \in ClosedStateNames
          THEN /\ summary' = summary
               /\ total_count(summary') = total_count(summary)
               /\ \A i \in DOMAIN summary' : summary'[i].source_ticket # cur.key
          ELSE /\ summary' = Append(summary, cur.result)
               /\ total_count(summary') = total_count(summary) + 1]_vars

\* the first ticket is in the summary, the second, closed and without a
\* target ticket, is not
C6_Witness ==
    /\ pc = "tickets"
    /\ check = Identification
    /\ idx = 2
    /\ cur.status_name = "Closed"
    /\ cur.result.target_ticket = NoKey
    /\ total_count(summary) = 1
    /\ summary[1].source_ticket # cur.key

\* the candidates the link loop of the running check collects from the links
RECURSIVE Rescan(_, _)
Rescan(links, candidates) ==
    IF links = <<>> THEN candidates
    ELSE Rescan(Tail(links), LinkBody(candidates, Head(links)))

WithoutFailed(links) == SelectSeq(links, LAMBDA link : link.fetch # "failed")

ResultOf(candidates) ==
    IF check = Identification
    THEN evaluate_ticket_result(cur.key, cur.created_date, candidates,
                                SLA_DEFINITIONS(check))
    ELSE evaluate_ticket_resolution_result(cur.key, cur.created_date, candidates,
                                           SLA_DEFINITIONS(check))

\* C8: a get_issue or get_issue_comments that raises does not end the check;
\* the Result of the source ticket is the one it gets without the failed
\* links, or with an empty comment list.
C8_SecondaryFetchFailure ==
    /\ pc = "filter" => cur.result = ResultOf(Rescan(WithoutFailed(cur.links), <<>>))
    /\ (pc = "tickets" /\ check = FirstResponse /\ cur.links = <<[fetch |-> "failed"]>>) =>
           /\ cur.result = first_response_result(cur.key, cur.created_date, <<>>,
                                                 SLA_DEFINITIONS(check))
           /\ summary[Len(summary)] = cur.result
    /\ pc = "raised" => (cur = NoTicket /\ check \in search_failed)

\* the fetch of the first link failed, the second link gives the target of
\* the second source ticket
C8_Witness ==
    /\ pc = "filter"
    /\ idx = 2
    /\ Len(cur.links) = 2
    /\ cur.links[1].fetch = "failed"
    /\ cur.links[2].fetch = "ok"
    /\ cur.result.target_ticket = cur.links[2].key

\* C9: a page request of search_issues that fails ends the run: the check
\* returns no Summary and no further check is started.
C9_SearchFailureIsFatal ==
    \A c \in search_failed :
        /\ pc = "raised"
        /\ check = c
        /\ c \notin returned
        /\ started[Len(started)] = c

\* the second page request of the first check failed
C9_Witness ==
    /\ pc = "raised"
    /\ check = Identification
    /\ Len(all_issues) = 1
    /\ returned = {}
    /\ started = <<Identification>>

(***************************************************************************)
(* Properties of the elapsed days.                                         *)
(***************************************************************************)
\* get_business_days on every pair of datetimes of the range: never negative,
\* and 0 where the end is before the start
NonNegativeOnRange ==
    \A s \in Datetimes : \A e \in Datetimes :
        /\ get_business_days(s, e) >= 0
        /\ e < s => get_business_days(s, e) = 0

\* C11: get_business_days(start, end) is never negative and is 0 whenever
\* end < start; so days_elapsed >= 0 in every Result, and it is 0 in a Result
\* whose resolved_date is before its created_date.
C11_NeverNegative ==
    /\ NonNegativeOnRange
    /\ \A r \in AllResults :
           /\ r.days_elapsed >= 0
           /\ (r.resolved_date # NoDate /\ r.resolved_date < r.created_date)
                  => r.days_elapsed = 0

\* a source ticket without a created value, taken as created now, and a
\* linked ticket created days before: 0 days elapsed
C11_Witness ==
    /\ pc = "filter"
    /\ cur.result.resolved_date # NoDate
    /\ DateOf(cur.result.resolved_date) < DateOf(cur.result.created_date)
    /\ cur.result.days_elapsed = 0

(***************************************************************************)
(* Properties of the first response, stated where check_first_response has *)
(* added the Result of a ticket and its comments are still at hand.        *)
(***************************************************************************)
Responded ==
    /\ check = FirstResponse
    /\ pc = "tickets"
    /\ cur.result # NoResult

\* the comment is written by an internal account and is public: its public
\* flag is true, or the flag is absent and there is no visibility restriction
Qualifies(comment) ==
    /\ comment.accountType = "atlassian"
    /\ \/ comment.jsdPublic = "True"
       \/ (comment.jsdPublic = "None" /\ comment.visibility = "None")

\* the created timestamps of the qualifying comments of the ticket
QualifyingDates ==
    {cur.comments[i].created : i \in
        {j \in DOMAIN cur.comments :
            Qualifies(cur.comments[j]) /\ cur.comments[j].created # NoDate}}

\* C12: the resolved_date of a first-response Result is the earliest created
\* timestamp of the comments of the source ticket that are written by an
\* internal account and are public, wherever they stand in the list; the other
\* comments have no influence, and with no such timestamp resolved_date is
\* absent.
C12_EarliestPublicInternalComment ==
    Responded =>
        IF QualifyingDates = {}
        THEN cur.result.resolved_date = NoDate
        ELSE /\ cur.result.resolved_date \in QualifyingDates
             /\ \A d \in QualifyingDates : cur.result.resolved_date <= d

\* two qualifying comments, the later one first in the list: the date of the
\* second is the resolved_date
C12_Witness ==
    /\ Responded
    /\ Len(cur.comments) = 2
    /\ Qualifies(cur.comments[1])
    /\ Qualifies(cur.comments[2])
    /\ cur.comments[2].created # NoDate
    /\ cur.comments[2].created < cur.comments[1].created
    /\ cur.result.resolved_date = cur.comments[2].created

(***************************************************************************)
(* Properties of the resolution check under the shipped definition.        *)
(***************************************************************************)
\* the target-project links whose ticket went into the target status
WithTransition ==
    {i \in DOMAIN cur.links :
        /\ IsTargetLink(SLA_DEFINITIONS(Resolution), cur.links[i].key)
        /\ cur.links[i].transition # NoDate}

\* C13: under the shipped resolution_config (target_status 'ready to build',
\* no done-date field) the first target-project link, in link order, whose
\* change history has a transition into the target status gives target_ticket
\* and, with the timestamp of that transition, resolved_date; with no such
\* link both are absent.
C13_FirstTransitionWins ==
    (Evaluated(Resolution) /\ done_field = "") =>
        IF WithTransition = {}
        THEN cur.result.target_ticket = NoKey /\ cur.result.resolved_date = NoDate
        ELSE LET first == CHOOSE i \in WithTransition : \A j \in WithTransition : i <= j
             IN  /\ cur.result.target_ticket = cur.links[first].key
                 /\ cur.result.resolved_date = cur.links[first].transition

(***************************************************************************)
(* Properties of the order of the Results.                                 *)
(***************************************************************************)
\* the keys of the tickets search_issues has returned, in its order
KeysReturned == [i \in DOMAIN all_issues |-> IssueKey(PROJECT_A, all_issues[i])]

\* the source_ticket keys of summary.results, in its order
KeysOfSummary == [i \in DOMAIN summary |-> summary[i].source_ticket]

\* s is t with some elements left out
RECURSIVE IsSubsequence(_, _)
IsSubsequence(s, t) ==
    IF s = <<>> THEN TRUE
    ELSE IF t = <<>> THEN FALSE
    ELSE IF Head(s) = Head(t) THEN IsSubsequence(Tail(s), Tail(t))
    ELSE IsSubsequence(s, Tail(t))

InSearchOrder ==
    /\ IsSubsequence(KeysOfSummary, SubSeq(KeysReturned, 1, idx))
    /\ \A i \in DOMAIN summary : \A j \in DOMAIN summary :
           i # j => summary[i].source_ticket # summary[j].source_ticket

\* C14: the source_ticket keys of summary.results are a subsequence of the keys
\* the search returned (of those evaluated so far), in the same order and each
\* at most once; and while a check runs a step leaves summary.results as it is
\* or appends one Result to it.
C14_AppendOnlyInSearchOrder ==
    /\ []InSearchOrder
    /\ [][check' = check =>
              \/ summary' = summary
              \/ /\ Len(summary') = Len(summary) + 1
                 /\ SubSeq(summary', 1, Len(summary)) = summary]_vars

\* the first ticket returned was left out by the inclusion filter, the second
\* is the only Result of the summary
C14_Witness ==
    /\ pc = "tickets"
    /\ Len(all_issues) = 2
    /\ idx = 2
    /\ KeysOfSummary = <<KeysReturned[2]>>

(***************************************************************************)
(* Properties of the counts of a Summary.                                  *)
(***************************************************************************)
\* C15: after any sequence of add_result calls with Results of status met,
\* breached or in_progress, total_count is the number of calls, the three
\* counts add up to total_count, and each count is the number of results that
\* have its status now.
C15_CountsFromContents ==
    /\ total_count(summary) = calls
    /\ met_count(summary) + breached_count(summary) + in_progress_count(summary)
           = total_count(summary)
    /\ met_count(summary) = NumberWith("met")
    /\ breached_count(summary) = NumberWith("breached")
    /\ in_progress_count(summary) = NumberWith("in_progress")

\* five calls: met, breached, in_progress, breached, met
C15_Witness ==
    /\ calls = 5
    /\ [i \in DOMAIN summary |-> summary[i].status]
           = <<"met", "breached", "in_progress", "breached", "met">>
    /\ met_count(summary) = 2
    /\ breached_count(summary) = 2
    /\ in_progress_count(summary) = 1
    /\ total_count(summary) = 5

(***************************************************************************)
(* Properties of the paginated search.                                     *)
(***************************************************************************)
\* search_issues has returned its list to the running check
SearchReturned == pc \in {"tickets", "links", "filter", "comments", "returned", "done"}

\* C16: for a server that holds server_total matching issues and serves them
\* in pages of at most max_results from the requested startAt, every page is
\* requested from the number of issues retrieved so far, and the list
\* search_issues returns holds all the issues of the server, each once, in the
\* server's order.
C16_ReturnsAllIssues ==
    /\ pc = "search" => start_at = Len(all_issues)
    /\ SearchReturned => all_issues = [i \in 1 .. server_total |-> i]

(***************************************************************************)
(* Properties of a source ticket without a created value.                  *)
(***************************************************************************)
\* the evaluation of the ticket at hand has produced its Result, and the
\* ticket's created value was missing or did not parse
EvaluatedWithoutCreated ==
    /\ cur.result # NoResult
    /\ cur.created = NoDate

\* C17 as claimed: a source ticket whose created value is missing or does not
\* parse still gets a Result, and where it is unresolved the Result has
\* days_elapsed = 0 and status in_progress.
C17_MissingCreatedZeroElapsed ==
    (EvaluatedWithoutCreated /\ cur.result.resolved_date = NoDate) =>
        /\ cur.result.days_elapsed = 0
        /\ cur.result.status = "in_progress"

\* C17 amended: a source ticket whose created value is missing or does not
\* parse gets created_date = the time of the replacement and still gets a
\* Result; where it is unresolved, days_elapsed is the number of weekdays from
\* the date of the replacement up to, not including, the date on which the
\* elapsed days are computed (0 when the two dates are the same), and the
\* status is in_progress where that is within target_days, breached otherwise.
C17_MissingCreatedElapsedSinceReplacement ==
    /\ [][(pc = "tickets" /\ pc' \in {"links", "comments"} /\ cur'.created = NoDate)
              => cur'.created_date = now]_vars
    /\ [](EvaluatedWithoutCreated =>
              /\ cur.result.created_date = cur.created_date
              /\ cur.result.resolved_date = NoDate =>
                     /\ cur.result.days_elapsed =
                            Cardinality(Weekdays(DateOf(cur.created_date), DateOf(now) - 1))
                     /\ cur.result.status =
                            IF cur.result.days_elapsed > cur.result.target_days
                            THEN "breached" ELSE "in_progress")

\* midnight passed between the replacement and the computation of the elapsed
\* days: one business day, and in progress
C17_Witness ==
    /\ EvaluatedWithoutCreated
    /\ cur.result.resolved_date = NoDate
    /\ DateOf(cur.result.created_date) < DateOf(now)
    /\ cur.result.days_elapsed = 1
    /\ cur.result.status = "in_progress"

(***************************************************************************)
(* A check run twice against the same answers of the tracker and the same  *)
(* current time.  The answers are fixed before the first run: for every    *)
(* ticket the search returns, its created value, for each of its issue     *)
(* links what the link loop meets, and its own status.  Both runs read the  *)
(* clock on the day after the deadline.                                    *)
(***************************************************************************)
\* what the link loop of the identification check may meet at the n-th link
LinksAt(n) ==
    {NoIssue, Skipped(IssueKey(PROJECT_A, 9)), Failed(IssueKey(PROJECT_B, n))}
        \cup {Fetched(IssueKey(PROJECT_B, n), read[1], read[2]) :
                 read \in {r \in Categories \X
                                  (LinkedDates(IdentificationTargetDays) \cup {NoDate}) :
                              Reads(Identification, r[1], r[2])}}

LinkLists ==
    UNION {{links \in [1 .. n -> UNION {LinksAt(i) : i \in 1 .. n}] :
               \A i \in 1 .. n : links[i] \in LinksAt(i)} : n \in 0 .. MaxLinks}

TicketSnapshots ==
    [created : {NoDate, SourceCreated},
     links : LinkLists,
     status_name : {"Closed", "Open"}]

SearchResults == UNION {[1 .. n -> TicketSnapshots] : n \in 0 .. MaxTickets}

TwiceInit ==
    /\ pc = "start"
    /\ check = Identification
    /\ started = <<>>
    /\ returned = {}
    /\ now = LastNow(IdentificationTargetDays)
    /\ done_field = ""
    /\ server_total = 0
    /\ all_issues = <<>>
    /\ start_at = 0
    /\ idx = 0
    /\ cur = NoTicket
    /\ search_failed = {}
    /\ summary = <<>>
    /\ calls = 0
    /\ responses \in SearchResults
    /\ first_summary = <<>>
    /\ BusDaysIdle
    /\ ExtractIdle
    /\ TransitionIdle

\* the check is called: a new Summary, and the search returns the tickets
StartRun ==
    /\ pc = "start"
    /\ started' = Append(started, check)
    /\ summary' = <<>>
    /\ calls' = 0
    /\ server_total' = Len(responses)
    /\ all_issues' = Page(0, Len(responses))
    /\ start_at' = Len(responses)
    /\ idx' = 0
    /\ cur' = NoTicket
    /\ pc' = "run"
    /\ UNCHANGED <<check, returned, now, done_field, search_failed>>
    /\ UNCHANGED bdVars
    /\ UNCHANGED twiceVars
    /\ UNCHANGED efVars
    /\ UNCHANGED transitionVars

\* one pass of the loop over source_tickets: _evaluate_ticket on the answers
\* for the ticket, then the inclusion filter
EvaluateTicket ==
    /\ pc = "run"
    /\ idx < Len(all_issues)
    /\ idx' = idx + 1
    /\ LET ticket == responses[idx + 1]
           ticket_key == IssueKey(PROJECT_A, all_issues[idx + 1])
           created_date == CreatedDate(ticket.created)
           result == evaluate_ticket_result(ticket_key, created_date,
                                            Rescan(ticket.links, <<>>),
                                            SLA_DEFINITIONS(check))
       IN  /\ cur' = [NoTicket EXCEPT
                         !.key = ticket_key,
                         !.created = ticket.created,
                         !.created_date = created_date,
                         !.status_name = ticket.status_name,
                         !.result = result,
                         !.included = ~IsExcluded(result, ticket.status_name)]
           /\ summary' = IF IsExcluded(result, ticket.status_name)
                         THEN summary
                         ELSE add_result(summary, result)
           /\ calls' = IF IsExcluded(result, ticket.status_name)
                       THEN calls
                       ELSE calls + 1
    /\ UNCHANGED <<pc, check, started, returned, now, done_field, server_total,
                   all_issues, start_at, search_failed>>
    /\ UNCHANGED bdVars
    /\ UNCHANGED twiceVars
    /\ UNCHANGED efVars
    /\ UNCHANGED transitionVars

\* the first run returns its Summary, and the check is called again
ReturnFirst ==
    /\ pc = "run"
    /\ idx = Len(all_issues)
    /\ Len(started) = 1
    /\ first_summary' = summary
    /\ returned' = returned \cup {check}
    /\ pc' = "start"
    /\ UNCHANGED <<check, started, now, done_field, server_total, all_issues,
                   start_at, idx, cur, summary, calls, search_failed, responses>>
    /\ UNCHANGED bdVars
    /\ UNCHANGED efVars
    /\ UNCHANGED transitionVars

\* the second run returns its Summary
ReturnSecond ==
    /\ pc = "run"
    /\ idx = Len(all_issues)
    /\ Len(started) = 2
    /\ pc' = "twice"
    /\ UNCHANGED <<check, started, returned, now, done_field, server_total,
                   all_issues, start_at, idx, cur, summary, calls, search_failed>>
    /\ UNCHANGED bdVars
    /\ UNCHANGED twiceVars
    /\ UNCHANGED efVars
    /\ UNCHANGED transitionVars

TwiceNext ==
    \/ StartRun
    \/ EvaluateTicket
    \/ ReturnFirst
    \/ ReturnSecond

SpecTwice == TwiceInit /\ [][TwiceNext]_vars

MaxElements == 2

None == [type |-> "NoneType"]
Str(chars) == [type |-> "str", chars |-> <<chars>>]
Number(n) == [type |-> "int", n |-> n]
Dict(entries) == [type |-> "dict", entries |-> entries]
List(elements) == [type |-> "list", elements |-> elements]

\* str(field)
Rendered(field) == [type |-> "str", chars |-> <<"str", field>>]

\* for key in [...]: if key in field: return field[key]
RECURSIVE FirstPresent(_, _)
FirstPresent(keys, field) ==
    IF keys = <<>> THEN Rendered(field)
    ELSE IF Head(keys) \in DOMAIN field.entries
         THEN field.entries[Head(keys)]
         ELSE FirstPresent(Tail(keys), field)

RECURSIVE extract_field_value(_, _)
extract_field_value(field, default) ==
    IF field = None THEN default
    ELSE IF field.type = "str" THEN field
    ELSE IF field.type = "dict"
         THEN FirstPresent(<<"value", "displayValue", "name", "key">>, field)
    ELSE IF field.type = "list" /\ Len(field.elements) > 0
         THEN extract_field_value(field.elements[1], default)
    ELSE Rendered(field)

\* the fields of the range: scalars, mappings of some of five keys to scalars,
\* and lists of these, of lists of scalars and of nothing
Scalars == {None, Str("a"), Str("b"), Number(7)}

Keys == {"value", "displayValue", "name", "key", "id"}

Dicts == UNION {{Dict(entries) : entries \in [K -> {None, Str("a"), Str("b")}]} :
                   K \in SUBSET Keys}

\* the lists of at most MaxElements elements: any first element, then strings
ListsOf(firsts) ==
    {List(<<>>)} \cup
    UNION {{List(<<first>> \o rest) : first \in firsts} :
              rest \in UNION {[1 .. n -> {Str("b")}] : n \in 0 .. (MaxElements - 1)}}

Fields ==
    Scalars \cup Dicts \cup ListsOf(Scalars \cup Dicts \cup ListsOf(Scalars))

NotCalled == [type |-> "not called"]

ExtractInit ==
    /\ ef_field \in Fields
    /\ ef_default \in {Str("Unknown"), Str("")}
    /\ ef_result = NotCalled
    /\ summary = <<>>
    /\ calls = 0
    /\ BusDaysIdle
    /\ RunIdle
    /\ TwiceIdle
    /\ TransitionIdle

CallExtractFieldValue ==
    /\ ef_result = NotCalled
    /\ ef_result' = extract_field_value(ef_field, ef_default)
    /\ UNCHANGED <<ef_field, ef_default, summary, calls>>
    /\ UNCHANGED bdVars
    /\ UNCHANGED runVars
    /\ UNCHANGED twiceVars
    /\ UNCHANGED transitionVars

ExtractNext == CallExtractFieldValue

SpecExtract == ExtractInit /\ [][ExtractNext]_vars

\* the claimed result for a mapping: the value under the first present of the
\* keys value, displayValue, name, key
UnderFirstKey(field) ==
    CASE "value" \in DOMAIN field.entries -> field.entries["value"]
      [] "displayValue" \in DOMAIN field.entries -> field.entries["displayValue"]
      [] "name" \in DOMAIN field.entries -> field.entries["name"]
      [] "key" \in DOMAIN field.entries -> field.entries["key"]
      [] OTHER -> Rendered(field)

RECURSIVE Claimed(_, _)
Claimed(field, default) ==
    CASE field.type = "NoneType" -> default
      [] field.type = "str" -> field
      [] field.type = "dict" -> UnderFirstKey(field)
      [] field.type = "list" /\ field.elements # <<>> ->
             Claimed(field.elements[1], default)
      [] OTHER -> Rendered(field)

\* C19: extract_field_value gives a string for every field: the default for
\* None, the string for a string, for a mapping the value under the first
\* present of the keys value, displayValue, name, key or else the rendering of
\* the mapping, for a non-empty list the extraction of its first element, and
\* for anything else, an empty list too, its rendering.
C19_NormalisesToString ==
    ef_result # NotCalled =>
        /\ ef_result = Claimed(ef_field, ef_default)
        /\ ef_result.type = "str"

(***************************************************************************)
(* Properties of the get_issue calls.                                      *)
(***************************************************************************)
\* the keys of the links scanned for the ticket at hand, in link order
KeysOfLinks == [i \in DOMAIN cur.links |-> cur.links[i].key]

HasTargetPrefix(key) ==
    /\ Len(key) >= 3
    /\ key[1] = "L" /\ key[2] = "P" /\ key[3] = "M"

\* C20: for every source ticket, in search order, the get_issue calls made so
\* far are exactly the linked keys scanned so far that start with the prefix
\* of the target project, in link order: none for another key, one for every
\* occurrence of a link, whether the call failed or the key was asked for
\* before; and the first-response check calls get_issue for no ticket.
C20_OneCallPerTargetLink ==
    /\ check # FirstResponse => cur.requests = SelectSeq(KeysOfLinks, HasTargetPrefix)
    /\ cur.key # NoKey => cur.key = IssueKey(PROJECT_A, all_issues[idx])
    /\ check = FirstResponse => cur.requests = <<>>

\* the second source ticket links the same target ticket twice and a ticket
\* of the source project: the first call failed, the key is asked for again
\* and the other key is not asked for
C20_Witness ==
    /\ idx = 2
    /\ Len(cur.links) = 2
    /\ cur.links[1] = Failed(IssueKey(PROJECT_B, 1))
    /\ cur.links[2].key = IssueKey(PROJECT_B, 1)
    /\ cur.links[2].fetch = "ok"
    /\ cur.requests = <<IssueKey(PROJECT_B, 1), IssueKey(PROJECT_B, 1)>>

(***************************************************************************)
(* jira_client.py: get_status_transition_date, on its own.  The changelog  *)
(* is what get_issue_changelog returned: entries in the tracker's order,   *)
(* each with a created value (or none) and a list of items; an item has a  *)
(* field and a toString, which may be None.                                *)
(***************************************************************************)
MaxEntries == 2
MaxItems == 1

\* item.get("toString") or ""
OrEmpty(value) == IF value = None THEN "" ELSE value.chars[1]

\* a mutation of IsTransitionTo: the resulting value compared as it is
IsTransitionTo_CaseSensitive(item, status) ==
    /\ item.field = "status"
    /\ OrEmpty(item.toString) = status

\* item.get("field") == "status" and
\* (item.get("toString") or "").lower() == target_status.lower()
IsTransitionTo(item, status) ==
    /\ item.field = "status"
    /\ Lower(OrEmpty(item.toString)) = Lower(status)

\* for item in entry.get("items", []): if ...: some item of the entry matches
EntryQualifies(entry, status) ==
    \E i \in DOMAIN entry.items : IsTransitionTo(entry.items[i], status)

\* for entry in changelog: ... return entry.get("created"); return None
RECURSIVE get_status_transition_date(_, _)
get_status_transition_date(entries, status) ==
    IF entries = <<>> THEN NoDate
    ELSE IF EntryQualifies(Head(entries), status)
         THEN Head(entries).created
         ELSE get_status_transition_date(Tail(entries), status)

\* the items of the range: a status item into one of two statuses or with no
\* toString, and an item of another field
Items ==
    {[field |-> "status", toString |-> Str("Ready to Build")],
     [field |-> "status", toString |-> Str("Done")],
     [field |-> "status", toString |-> None],
     [field |-> "resolution", toString |-> Str("Done")]}

\* entry.get("created"): a timestamp, or None where the entry has none; the
\* tracker's order need not be that of the timestamps
EntryCreated == {1, 2, NoDate}

Entries ==
    [created : EntryCreated,
     items : UNION {[1 .. n -> Items] : n \in 0 .. MaxItems}]

Changelogs == UNION {[1 .. n -> Entries] : n \in 0 .. MaxEntries}

\* target_status as the shipped resolution_config has it, and another one
TargetStatuses == {"ready to build", "DONE"}

NotReturned == -3

TransitionInit ==
    /\ changelog \in Changelogs
    /\ target_status \in TargetStatuses
    /\ transition_date = NotReturned
    /\ summary = <<>>
    /\ calls = 0
    /\ BusDaysIdle
    /\ RunIdle
    /\ TwiceIdle
    /\ ExtractIdle

CallGetStatusTransitionDate ==
    /\ transition_date = NotReturned
    /\ transition_date' = get_status_transition_date(changelog, target_status)
    /\ UNCHANGED <<changelog, target_status, summary, calls>>
    /\ UNCHANGED bdVars
    /\ UNCHANGED runVars
    /\ UNCHANGED twiceVars
    /\ UNCHANGED efVars

TransitionNext == CallGetStatusTransitionDate

SpecTransition == TransitionInit /\ [][TransitionNext]_vars

\* the positions of the changelog's entries that have a status item whose
\* resulting value is target_status, whatever the case of the letters
QualifyingEntries ==
    {i \in DOMAIN changelog :
        \E j \in DOMAIN changelog[i].items :
            /\ changelog[i].items[j].field = "status"
            /\ changelog[i].items[j].toString # None
            /\ Lower(changelog[i].items[j].toString.chars[1]) = Lower(target_status)}

\* C21: get_status_transition_date returns the created of the first entry, in
\* changelog order, that has an item with field 'status' whose resulting value
\* is target_status case-insensitively; a later qualifying entry never
\* replaces it; it returns None when no entry qualifies.
C21_FirstQualifyingEntry ==
    transition_date # NotReturned =>
        IF QualifyingEntries = {}
        THEN transition_date = NoDate
        ELSE \E i \in QualifyingEntries :
                 /\ \A j \in QualifyingEntries : i <= j
                 /\ transition_date = changelog[i].created

\* two entries qualify, the later one in the list with the earlier created and
\* a toString that differs from target_status in case: the first one's
\* created is returned
C21_Witness ==
    /\ transition_date # NotReturned
    /\ QualifyingEntries = {1, 2}
    /\ changelog[2].created # NoDate
    /\ changelog[1].created > changelog[2].created
    /\ changelog[1].items[1].toString # None
    /\ changelog[1].items[1].toString.chars[1] # target_status
    /\ transition_date = changelog[1].created

\* C22: in every Result of the identification check and of the resolution
\* check, resolved_date is present if and only if target_ticket is present.
C22_ResolvedDateIffTarget ==
    check \in {Identification, Resolution} =>
        \A r \in AllResults :
            (r.resolved_date # NoDate) <=> (r.target_ticket # NoKey)

RespondedTo == IF pc = "comments" THEN idx - 1 ELSE idx

\* C24: check_first_response applies no inclusion filter: its Summary holds
\* one Result for each ticket the search returned that the loop is through
\* with, in search order, all of them once the Summary is returned; every
\* Result has no target_ticket and has an elapsed_time_str; a ticket whose own
\* status is closed, resolved or canceled and that has no qualifying comment
\* is in the Summary with status in_progress or breached.
C24_FirstResponseKeepsEveryTicket ==
    check = FirstResponse =>
        /\ KeysOfSummary = SubSeq(KeysReturned, 1, RespondedTo)
        /\ pc \in {"returned", "done"} => Len(summary) = Len(all_issues)
        /\ \A i \in DOMAIN summary :
               /\ summary[i].target_ticket = NoKey
               /\ summary[i].elapsed_time_str # NoStr
        /\ (cur.result # NoResult /\ cur.result.resolved_date = NoDate) =>
               /\ summary[Len(summary)] = cur.result
               /\ cur.result.status \in {"in_progress", "breached"}

\* two tickets were returned; the second is closed and has a comment that
\* does not qualify, and it is the second Result of the Summary
C24_Witness ==
    /\ check = FirstResponse
    /\ pc = "tickets"
    /\ Len(all_issues) = 2
    /\ idx = 2
    /\ Lower(cur.status_name) \in excluded_statuses
    /\ Len(cur.comments) = 1
    /\ cur.result.resolved_date = NoDate
    /\ KeysOfSummary = KeysReturned
    /\ summary[2] = cur.result
    /\ summary[2].status = "breached"
    /\ summary[2].elapsed_time_str # NoStr

====
